---- MODULE Spec2Model ----
(***************************************************************************)
(* Model of the JWT authentication core of the LocalEve backend:           *)
(*   utils/jwt.ts (JWTService), utils/tokenBlacklist.ts                    *)
(*   (TokenBlacklistService), utils/crypto.ts (PasswordService),           *)
(*   middleware/auth.ts (requireAuth) and routes/auth.ts (login, register, *)
(*   oauth, refresh, me, logout, logout-all).                              *)
(*                                                                         *)
(* Specifications: Spec (the token routes, each request one step),         *)
(* SpecRestart (Spec with process restarts), SpecFair (Spec with an        *)
(* advancing clock), SpecCredentials (login, register, oauth over the      *)
(* users table), SpecSession (the credential routes with refresh, a        *)
(* protected GET and logout-all), SpecAsync (protected requests           *)
(* interleaved at their awaits) and SpecIssueAsync (issuances interleaved  *)
(* with protected requests at their awaits).                               *)
(*                                                                         *)
(* A compact JWT string is modelled by the record of what it encodes:      *)
(* the protected header's alg, the claims set and the HS256 signature.     *)
(* HS256 is deterministic, so two tokens are the same string exactly when  *)
(* alg, claims and signature agree; the signature is modelled as the pair  *)
(* <<key, signed claims>> (an ideal MAC).                                  *)
(***************************************************************************)
EXTENDS Integers, FiniteSets, Sequences, TLC

\* ------------------------------------------------------------------ bounds
MaxPairs == 2

\* --------------------------------------------------------------- constants
AccessLifetime == 900
RefreshLifetime == 604800
ExpiresIn == 900

ISSUER == "localeve-api"
AUDIENCE == "localeve-users"
DefaultJwtSecret == "your-super-secret-jwt-key-change-this-in-production"
DefaultRefreshSecret == "your-super-secret-refresh-key-change-this-in-production"

\* Deployments: process.env.JWT_SECRET and process.env.REFRESH_SECRET, where
\* "" stands for an unset variable (falsy in `env || default`). Either both
\* are unset, or both are configured, to the same value.
Environments ==
  { [JWT_SECRET |-> "", REFRESH_SECRET |-> ""],
    [JWT_SECRET |-> "configured-secret",
     REFRESH_SECRET |-> "configured-secret"] }

\* Identity claims of the users known to the user store.
Payloads ==
  { [userId |-> "u1", email |-> "a@b.com", username |-> "alice"],
    [userId |-> "u2", email |-> "c@d.com", username |-> ""] }

UserIds == {p.userId : p \in Payloads}

VARIABLES
  JWT_SECRET,         \* jwt.ts: access-token signing key
  REFRESH_SECRET,     \* jwt.ts: refresh-token signing key
  now,                \* wall clock, in seconds since the start of the run
  blacklistedTokens,  \* tokenBlacklist.ts: Set<string>
  userTokens,         \* tokenBlacklist.ts: Map<userId, Set<string>>
  issuedPairs,        \* history: every {accessToken, refreshToken} returned
  last,               \* the last event that touched the registry: "issue",
                      \* "refresh", "logout", "logout-all", "restart"
  users,              \* db: the users table, email -> row
  accounts,           \* db: the accounts table, providerAccountId -> userId
  answer,             \* the last answer of login, register or oauth
  inflight            \* the protected requests suspended at an await

vars == <<JWT_SECRET, REFRESH_SECRET, now, blacklistedTokens,
          userTokens, issuedPairs, last, users, accounts, answer, inflight>>

\* What the token routes leave alone: the database, the answers of the
\* credential routes and the requests modelled step by step.
credentialVars == <<users, accounts, answer>>

\* ------------------------------------------------------------- token codec
NoClaims ==
  [userId |-> "", email |-> "", username |-> "", type |-> "",
   iat |-> 0, exp |-> 0, iss |-> "", aud |-> ""]

\* HS256 over the claims set with the given key.
HS256(claims, key) == <<key, claims>>

\* new SignJWT(claims).setProtectedHeader({alg:"HS256"}) ... .sign(key)
SignJWT(claims, key) ==
  [alg |-> "HS256", payload |-> claims, sig |-> HS256(claims, key)]

\* The empty string (what replace("Bearer ", "") leaves of "Bearer ").
EmptyToken == [alg |-> "", payload |-> NoClaims, sig |-> HS256(NoClaims, "")]
\* A non-empty string that is not a compact JWS.
MalformedToken == [alg |-> "?", payload |-> NoClaims, sig |-> HS256(NoClaims, "")]


\* SignJWT({...payload, type:"access"}).setIssuedAt().setExpirationTime("15m")
\*   .setIssuer(..).setAudience(..).sign(JWT_SECRET), evaluated at second t.
AccessClaims(payload, t) ==
  [userId |-> payload.userId, email |-> payload.email,
   username |-> payload.username, type |-> "access",
   iat |-> t, exp |-> t + AccessLifetime, iss |-> ISSUER, aud |-> AUDIENCE]

GenerateAccessToken(payload, t) == SignJWT(AccessClaims(payload, t), JWT_SECRET)

RefreshClaims(payload, t) ==
  [userId |-> payload.userId, email |-> payload.email,
   username |-> payload.username, type |-> "refresh",
   iat |-> t, exp |-> t + RefreshLifetime, iss |-> ISSUER, aud |-> AUDIENCE]

GenerateRefreshToken(payload, t) ==
  SignJWT(RefreshClaims(payload, t), REFRESH_SECRET)

\* jwtVerify with a clock tolerance of one minute.
JwtVerifyTolerant(token, key, t) ==
  IF token.alg # "HS256" THEN [ok |-> FALSE, error |-> "JWSInvalid"]
  ELSE IF token.sig # HS256(token.payload, key)
    THEN [ok |-> FALSE, error |-> "JWSSignatureVerificationFailed"]
  ELSE IF token.payload.iss # ISSUER
    THEN [ok |-> FALSE, error |-> "JWTClaimValidationFailed iss"]
  ELSE IF token.payload.aud # AUDIENCE
    THEN [ok |-> FALSE, error |-> "JWTClaimValidationFailed aud"]
  ELSE IF token.payload.exp <= t - 60
    THEN [ok |-> FALSE, error |-> "JWTExpired"]
  ELSE [ok |-> TRUE, error |-> ""]

\* jwtVerify that does not look at the exp claim.
JwtVerifyNoExpiry(token, key, t) ==
  IF token.alg # "HS256" THEN [ok |-> FALSE, error |-> "JWSInvalid"]
  ELSE IF token.sig # HS256(token.payload, key)
    THEN [ok |-> FALSE, error |-> "JWSSignatureVerificationFailed"]
  ELSE IF token.payload.iss # ISSUER
    THEN [ok |-> FALSE, error |-> "JWTClaimValidationFailed iss"]
  ELSE IF token.payload.aud # AUDIENCE
    THEN [ok |-> FALSE, error |-> "JWTClaimValidationFailed aud"]
  ELSE [ok |-> TRUE, error |-> ""]

\* jose's jwtVerify(token, key, {issuer, audience}) at second t: the compact
\* form and the algorithm, then the signature, then the claims (iss, aud,
\* exp with zero clock tolerance: a token is expired once exp <= now).
JwtVerify(token, key, t) ==
  IF token.alg # "HS256" THEN [ok |-> FALSE, error |-> "JWSInvalid"]
  ELSE IF token.sig # HS256(token.payload, key)
    THEN [ok |-> FALSE, error |-> "JWSSignatureVerificationFailed"]
  ELSE IF token.payload.iss # ISSUER
    THEN [ok |-> FALSE, error |-> "JWTClaimValidationFailed iss"]
  ELSE IF token.payload.aud # AUDIENCE
    THEN [ok |-> FALSE, error |-> "JWTClaimValidationFailed aud"]
  ELSE IF token.payload.exp <= t
    THEN [ok |-> FALSE, error |-> "JWTExpired"]
  ELSE [ok |-> TRUE, error |-> ""]

\* ------------------------------------------------------ revocation registry
IsTokenBlacklisted(token) == token \in blacklistedTokens

GetTokenId(token) == token

\* The registry operations below transform a registry value
\* reg = [blacklistedTokens |-> .., userTokens |-> ..], so that the
\* operations composed of several calls apply them in the code's order.
Registry ==
  [blacklistedTokens |-> blacklistedTokens, userTokens |-> userTokens]

BlacklistToken(reg, token) ==
  [reg EXCEPT !.blacklistedTokens = @ \cup {token}]

AddUserToken(reg, userId, token) ==
  LET m == reg.userTokens
      old == IF userId \in DOMAIN m THEN m[userId] ELSE {}
  IN [reg EXCEPT !.userTokens =
        [u \in DOMAIN m \cup {userId} |->
           IF u = userId THEN old \cup {token} ELSE m[u]]]

\* removeUserToken that leaves the user's entry in place when it gets empty.
RemoveUserTokenKeepEntry(reg, userId, token) ==
  LET m == reg.userTokens IN
  IF userId \in DOMAIN m
  THEN [reg EXCEPT !.userTokens = [m EXCEPT ![userId] = @ \ {token}]]
  ELSE reg

RemoveUserToken(reg, userId, token) ==
  LET m == reg.userTokens IN
  IF userId \in DOMAIN m
  THEN LET tokens == m[userId] \ {token} IN
       IF tokens = {}
       THEN [reg EXCEPT !.userTokens = [u \in DOMAIN m \ {userId} |-> m[u]]]
       ELSE [reg EXCEPT !.userTokens = [m EXCEPT ![userId] = tokens]]
  ELSE reg

\* blacklistAllUserTokens that drops the user's entry without blacklisting.
BlacklistAllUserTokensForgetful(reg, userId) ==
  LET m == reg.userTokens IN
  IF userId \in DOMAIN m
  THEN [blacklistedTokens |-> reg.blacklistedTokens,
        userTokens |-> [u \in DOMAIN m \ {userId} |-> m[u]]]
  ELSE reg

\* blacklistAllUserTokens that clears the whole index (userTokens.clear()).
BlacklistAllUserTokensWholeIndex(reg, userId) ==
  LET m == reg.userTokens IN
  IF userId \in DOMAIN m
  THEN [blacklistedTokens |-> reg.blacklistedTokens \cup m[userId],
        userTokens |-> << >>]
  ELSE reg

BlacklistAllUserTokens(reg, userId) ==
  LET m == reg.userTokens IN
  IF userId \in DOMAIN m
  THEN [blacklistedTokens |-> reg.blacklistedTokens \cup m[userId],
        userTokens |-> [u \in DOMAIN m \ {userId} |-> m[u]]]
  ELSE reg

\* blacklistUserTokens that revokes every tracked token of the user.
BlacklistUserTokensWholeUser(reg, userId, accessToken, refreshToken) ==
  BlacklistAllUserTokens(BlacklistToken(reg, accessToken), userId)

\* blacklistUserTokens that takes an access token the user's entry does not
\* hold for a replay and revokes everything tracked for the user.
BlacklistUserTokensReplayGuard(reg, userId, accessToken, refreshToken) ==
  LET m == reg.userTokens
      r1 == BlacklistToken(reg, accessToken)
      r2 == IF refreshToken # EmptyToken
            THEN BlacklistToken(r1, refreshToken) ELSE r1
      r3 == RemoveUserToken(r2, userId, accessToken)
      r4 == IF refreshToken # EmptyToken
            THEN RemoveUserToken(r3, userId, refreshToken) ELSE r3
  IN IF userId \in DOMAIN m /\ accessToken \notin m[userId]
     THEN BlacklistAllUserTokens(r4, userId) ELSE r4

\* blacklistUserTokens that blacklists the access token only, and removes
\* both tokens from the user's entry.
BlacklistUserTokensAccessOnly(reg, userId, accessToken, refreshToken) ==
  LET r1 == BlacklistToken(reg, accessToken)
      r3 == RemoveUserToken(r1, userId, accessToken)
  IN IF refreshToken # EmptyToken
     THEN RemoveUserToken(r3, userId, refreshToken) ELSE r3

\* blacklistUserTokens(userId, accessToken, refreshToken?): an absent or
\* empty refreshToken is falsy and is skipped.
BlacklistUserTokens(reg, userId, accessToken, refreshToken) ==
  LET r1 == BlacklistToken(reg, accessToken)
      r2 == IF refreshToken # EmptyToken
            THEN BlacklistToken(r1, refreshToken) ELSE r1
      r3 == RemoveUserToken(r2, userId, accessToken)
  IN IF refreshToken # EmptyToken
     THEN RemoveUserToken(r3, userId, refreshToken) ELSE r3

\* cleanExpiredTokens that drops the expired tokens from the blacklist.
CleanExpiredTokensPurging(reg) ==
  [reg EXCEPT !.blacklistedTokens = {t \in @ : t.payload.exp > now}]

\* cleanExpiredTokens(): a placeholder with an empty body.
CleanExpiredTokens(reg) == reg

GetStats(reg) ==
  [blacklistedCount |-> Cardinality(reg.blacklistedTokens),
   activeUsersCount |-> Cardinality(DOMAIN reg.userTokens)]

\* ------------------------------------------------------------- JWTService
\* verifyAccessToken / verifyRefreshToken at the current second. `cause` is
\* the error raised inside the try block, `error` the one the catch block
\* throws to the caller.
\* verifyAccessToken without the blacklist lookup.
VerifyAccessTokenNoBlacklist(token) ==
  LET v == JwtVerify(token, JWT_SECRET, now)
      cause == IF ~v.ok THEN v.error
               ELSE IF token.payload.type # "access" THEN "Invalid token type"
               ELSE ""
  IN IF cause = ""
     THEN [ok |-> TRUE, payload |-> token.payload, error |-> "", cause |-> ""]
     ELSE [ok |-> FALSE, payload |-> NoClaims,
           error |-> "Invalid or expired access token", cause |-> cause]

\* verifyAccessToken without the check of the type claim.
VerifyAccessTokenNoType(token) ==
  LET v == JwtVerify(token, JWT_SECRET, now)
      cause == IF IsTokenBlacklisted(token) THEN "Token has been invalidated"
               ELSE IF ~v.ok THEN v.error
               ELSE ""
  IN IF cause = ""
     THEN [ok |-> TRUE, payload |-> token.payload, error |-> "", cause |-> ""]
     ELSE [ok |-> FALSE, payload |-> NoClaims,
           error |-> "Invalid or expired access token", cause |-> cause]

\* verifyAccessToken whose catch block rethrows the error it caught.
VerifyAccessTokenRethrow(token) ==
  LET v == JwtVerify(token, JWT_SECRET, now)
      cause == IF IsTokenBlacklisted(token) THEN "Token has been invalidated"
               ELSE IF ~v.ok THEN v.error
               ELSE IF token.payload.type # "access" THEN "Invalid token type"
               ELSE ""
  IN IF cause = ""
     THEN [ok |-> TRUE, payload |-> token.payload, error |-> "", cause |-> ""]
     ELSE [ok |-> FALSE, payload |-> NoClaims, error |-> cause,
           cause |-> cause]

VerifyAccessToken(token) ==
  LET v == JwtVerify(token, JWT_SECRET, now)
      cause == IF IsTokenBlacklisted(token) THEN "Token has been invalidated"
               ELSE IF ~v.ok THEN v.error
               ELSE IF token.payload.type # "access" THEN "Invalid token type"
               ELSE ""
  IN IF cause = ""
     THEN [ok |-> TRUE, payload |-> token.payload, error |-> "", cause |-> ""]
     ELSE [ok |-> FALSE, payload |-> NoClaims,
           error |-> "Invalid or expired access token", cause |-> cause]

\* verifyRefreshToken without the check of the type claim.
VerifyRefreshTokenNoType(token) ==
  LET v == JwtVerify(token, REFRESH_SECRET, now)
      cause == IF IsTokenBlacklisted(token) THEN "Token has been invalidated"
               ELSE IF ~v.ok THEN v.error
               ELSE ""
  IN IF cause = ""
     THEN [ok |-> TRUE, payload |-> token.payload, error |-> "", cause |-> ""]
     ELSE [ok |-> FALSE, payload |-> NoClaims,
           error |-> "Invalid or expired refresh token", cause |-> cause]

VerifyRefreshToken(token) ==
  LET v == JwtVerify(token, REFRESH_SECRET, now)
      cause == IF IsTokenBlacklisted(token) THEN "Token has been invalidated"
               ELSE IF ~v.ok THEN v.error
               ELSE IF token.payload.type # "refresh" THEN "Invalid token type"
               ELSE ""
  IN IF cause = ""
     THEN [ok |-> TRUE, payload |-> token.payload, error |-> "", cause |-> ""]
     ELSE [ok |-> FALSE, payload |-> NoClaims,
           error |-> "Invalid or expired refresh token", cause |-> cause]

\* generateTokenPair that tracks the access token only.
GenerateTokenPairAccessOnly(reg, payload) ==
  LET accessToken == GenerateAccessToken(payload, now)
      refreshToken == GenerateRefreshToken(payload, now)
  IN [accessToken |-> accessToken, refreshToken |-> refreshToken,
      tokenType |-> "Bearer", expiresIn |-> ExpiresIn,
      reg |-> AddUserToken(reg, payload.userId, accessToken)]

\* generateTokenPair(payload): both tokens are stamped at the current second
\* and then tracked under payload.userId.
GenerateTokenPair(reg, payload) ==
  LET accessToken == GenerateAccessToken(payload, now)
      refreshToken == GenerateRefreshToken(payload, now)
  IN [accessToken |-> accessToken, refreshToken |-> refreshToken,
      tokenType |-> "Bearer", expiresIn |-> ExpiresIn,
      reg |-> AddUserToken(AddUserToken(reg, payload.userId, accessToken),
                           payload.userId, refreshToken)]

InvalidateTokens(reg, userId, accessToken, refreshToken) ==
  BlacklistUserTokens(reg, userId, accessToken, refreshToken)

InvalidateAllUserTokens(reg, userId) == BlacklistAllUserTokens(reg, userId)

\* ------------------------------------------------ tokens a client may send
IssuedTokens ==
  UNION {{pair.accessToken, pair.refreshToken} : pair \in issuedPairs}

OtherType(type) == IF type = "access" THEN "refresh" ELSE "access"

\* Strings derived from a real token t that a client may present:
\* the same claims with the other (or another, or no) type claim signed under
\* either configured secret, claims altered under the old signature, wrong
\* issuer or audience under a configured secret, a foreign key, alg "none".
Forgeries(t) ==
  LET c == t.payload
      swapped == [c EXCEPT !.type = OtherType(c.type)]
  IN { SignJWT(swapped, JWT_SECRET), SignJWT(swapped, REFRESH_SECRET),
       SignJWT([c EXCEPT !.type = "admin"], JWT_SECRET),
       SignJWT([c EXCEPT !.type = ""], REFRESH_SECRET),
       [t EXCEPT !.payload = swapped],
       [t EXCEPT !.payload = [c EXCEPT !.exp = @ + RefreshLifetime]],
       SignJWT([c EXCEPT !.iss = "evil-api"], t.sig[1]),
       SignJWT([c EXCEPT !.aud = "other-users"], t.sig[1]),
       SignJWT(c, "attacker-key"),
       [alg |-> "none", payload |-> c, sig |-> HS256(c, "")] }

\* Every non-empty string the model presents to the verification functions.
Presentable ==
  IssuedTokens \cup UNION {Forgeries(t) : t \in IssuedTokens}
    \cup {MalformedToken}

\* The tokens the modelled requests carry: every issued token (of either
\* class, whatever the route expects) and a string that is no JWT.
RequestTokens == IssuedTokens \cup {MalformedToken}

\* What the body of POST /auth/logout may carry as refreshToken: nothing, or
\* any issued token (of any user and class).
BodyTokens == IssuedTokens \cup {EmptyToken}

\* --------------------------------------------------------- middleware/auth
NoUser == [userId |-> "", email |-> "", username |-> ""]

NoHeader == [present |-> FALSE, token |-> EmptyToken]
Bearer(token) == [present |-> TRUE, token |-> token]

\* authHeader.replace("Bearer ", "")
StripBearer(header) == header.token

Headers == {NoHeader, Bearer(EmptyToken)} \cup {Bearer(t) : t \in RequestTokens}

\* requireAuth that, like optionalAuth, continues without a user when the
\* verification fails.
RequireAuthLenient(header) ==
  IF ~header.present
  THEN [next |-> FALSE, status |-> 401,
        error |-> "Authorization header required",
        message |-> "Please provide a valid authorization token",
        user |-> NoUser]
  ELSE LET token == StripBearer(header) IN
    IF token = EmptyToken
    THEN [next |-> FALSE, status |-> 401, error |-> "Token required",
          message |-> "Please provide a valid authorization token",
          user |-> NoUser]
    ELSE LET v == VerifyAccessToken(token) IN
      IF v.ok
      THEN [next |-> TRUE, status |-> 200, error |-> "", message |-> "",
            user |-> [userId |-> v.payload.userId, email |-> v.payload.email,
                      username |-> v.payload.username]]
      ELSE [next |-> TRUE, status |-> 200, error |-> "", message |-> "",
            user |-> NoUser]

\* requireAuth: `next` tells whether the downstream handler runs; otherwise
\* status/error/message are the JSON answer of the middleware.
RequireAuth(header) ==
  IF ~header.present
  THEN [next |-> FALSE, status |-> 401,
        error |-> "Authorization header required",
        message |-> "Please provide a valid authorization token",
        user |-> NoUser]
  ELSE LET token == StripBearer(header) IN
    IF token = EmptyToken
    THEN [next |-> FALSE, status |-> 401, error |-> "Token required",
          message |-> "Please provide a valid authorization token",
          user |-> NoUser]
    ELSE LET v == VerifyAccessToken(token) IN
      IF v.ok
      THEN [next |-> TRUE, status |-> 200, error |-> "", message |-> "",
            user |-> [userId |-> v.payload.userId, email |-> v.payload.email,
                      username |-> v.payload.username]]
      ELSE [next |-> FALSE, status |-> 401, error |-> "Invalid token",
            message |-> v.error, user |-> NoUser]

\* --------------------------------------------------- utils/crypto.ts (bytes)
\* A byte array is a sequence of 0..255. A password is the sequence of its
\* code points. A stored hash is a sequence of character codes: 0..63 stand
\* for the characters of the base64 alphabet in order, PadChar for "=",
\* OtherChar for any character outside the alphabet.
SaltLength == 16
KeyLength == 32
PadChar == 64
OtherChar == 65

\* bytes.slice(from) and bytes.slice(0, n)
Slice(s, from) == IF from >= Len(s) THEN << >> ELSE SubSeq(s, from + 1, Len(s))
Take(s, n) == IF n >= Len(s) THEN s ELSE SubSeq(s, 1, n)

\* new TextEncoder().encode(password): the UTF-8 bytes of the code points
\* (one byte below U+0080, two bytes below U+0800).
RECURSIVE TextEncode(_)
TextEncode(str) ==
  IF str = << >> THEN << >>
  ELSE LET cp == Head(str) IN
       (IF cp < 128 THEN <<cp>>
        ELSE <<192 + (cp \div 64), 128 + (cp % 64)>>) \o TextEncode(Tail(str))

\* btoa(String.fromCharCode.apply(null, Array.from(bytes)))
RECURSIVE Btoa(_)
Btoa(bytes) ==
  IF bytes = << >> THEN << >>
  ELSE IF Len(bytes) = 1
    THEN <<bytes[1] \div 4, (bytes[1] % 4) * 16, PadChar, PadChar>>
  ELSE IF Len(bytes) = 2
    THEN <<bytes[1] \div 4, (bytes[1] % 4) * 16 + bytes[2] \div 16,
           (bytes[2] % 16) * 4, PadChar>>
  ELSE <<bytes[1] \div 4, (bytes[1] % 4) * 16 + bytes[2] \div 16,
         (bytes[2] % 16) * 4 + bytes[3] \div 64, bytes[3] % 64>>
       \o Btoa(Slice(bytes, 3))

\* The decoding loop of atob over characters of the alphabet: four
\* characters give three bytes, a rest of three gives two, of two gives one.
RECURSIVE DecodeSextets(_)
DecodeSextets(s) ==
  IF Len(s) <= 1 THEN << >>
  ELSE IF Len(s) = 2 THEN <<s[1] * 4 + s[2] \div 16>>
  ELSE IF Len(s) = 3
    THEN <<s[1] * 4 + s[2] \div 16, (s[2] % 16) * 16 + s[3] \div 4>>
  ELSE <<s[1] * 4 + s[2] \div 16, (s[2] % 16) * 16 + s[3] \div 4,
         (s[3] % 4) * 64 + s[4]>> \o DecodeSextets(Slice(s, 4))

\* atob(str).split("").map(charCodeAt): one or two "=" are dropped from the
\* end of a string whose length is a multiple of 4; a length of 1 modulo 4 or
\* a character outside the alphabet throws InvalidCharacterError (ok = FALSE).
Atob(str) ==
  LET n == Len(str)
      stripped ==
        IF n > 0 /\ n % 4 = 0 /\ str[n] = PadChar
        THEN IF str[n - 1] = PadChar THEN Take(str, n - 2) ELSE Take(str, n - 1)
        ELSE str
  IN IF Len(stripped) % 4 = 1 \/ \E i \in 1..Len(stripped) : stripped[i] > 63
     THEN [ok |-> FALSE, bytes |-> << >>]
     ELSE [ok |-> TRUE, bytes |-> DecodeSextets(stripped)]

\* crypto.subtle.deriveBits(PBKDF2, salt, 100000 iterations, SHA-256, 256
\* bits): a function of the password bytes and the salt that is taken to be
\* injective; the 32 bytes spell out both inputs with their lengths.
DeriveBits(data, salt) ==
  LET spelled == <<Len(data)>> \o data \o <<Len(salt)>> \o salt
  IN spelled \o [i \in 1..(KeyLength - Len(spelled)) |-> 0]

\* hashPassword(password) with the salt getRandomValues drew.
HashPassword(password, salt) ==
  Btoa(salt \o DeriveBits(TextEncode(password), salt))

\* verifyPassword that accepts a stored key of the right length.
VerifyPasswordLengthOnly(password, hash) ==
  LET decoded == Atob(hash) IN
  IF ~decoded.ok
  THEN [result |-> FALSE, threw |-> FALSE, cause |-> "InvalidCharacterError"]
  ELSE LET combined == decoded.bytes
           salt == Take(combined, SaltLength)
           storedHash == Slice(combined, SaltLength)
           newHash == DeriveBits(TextEncode(password), salt)
       IN [result |-> Len(storedHash) = Len(newHash),
           threw |-> FALSE, cause |-> ""]

\* verifyPassword without the try/catch around the decoding.
VerifyPasswordNoCatch(password, hash) ==
  LET decoded == Atob(hash) IN
  IF ~decoded.ok
  THEN [result |-> FALSE, threw |-> TRUE, cause |-> "InvalidCharacterError"]
  ELSE LET combined == decoded.bytes
           salt == Take(combined, SaltLength)
           storedHash == Slice(combined, SaltLength)
           newHash == DeriveBits(TextEncode(password), salt)
       IN IF Len(storedHash) # Len(newHash)
          THEN [result |-> FALSE, threw |-> FALSE, cause |-> ""]
          ELSE [result |-> \A i \in 1..Len(storedHash) :
                             storedHash[i] = newHash[i],
                threw |-> FALSE, cause |-> ""]

\* verifyPassword(password, hash): `result` is what the caller gets, `threw`
\* whether an exception leaves the function, `cause` the exception the catch
\* block swallowed.
VerifyPassword(password, hash) ==
  LET decoded == Atob(hash) IN
  IF ~decoded.ok
  THEN [result |-> FALSE, threw |-> FALSE, cause |-> "InvalidCharacterError"]
  ELSE LET combined == decoded.bytes
           salt == Take(combined, SaltLength)
           storedHash == Slice(combined, SaltLength)
           newHash == DeriveBits(TextEncode(password), salt)
       IN IF Len(storedHash) # Len(newHash)
          THEN [result |-> FALSE, threw |-> FALSE, cause |-> ""]
          ELSE [result |-> \A i \in 1..Len(storedHash) :
                             storedHash[i] = newHash[i],
                threw |-> FALSE, cause |-> ""]

\* The comparison loop of verifyPassword over two arrays of equal length:
\* `for (i = 0; i < storedHash.length; i++) if (storedHash[i] !== newHash[i])
\* return false; return true`. `comparisons` counts the evaluations of
\* `storedHash[i] !== newHash[i]` before the function returns.
CompareLoop(storedHash, newHash) ==
  LET differing == {i \in 1..Len(storedHash) : storedHash[i] # newHash[i]}
  IN IF differing = {}
     THEN [result |-> TRUE, comparisons |-> Len(storedHash)]
     ELSE [result |-> FALSE,
           comparisons |-> CHOOSE i \in differing :
                             \A j \in differing : i <= j]

\* The byte comparisons verifyPassword(password, hash) performs: none when
\* the decoding throws or the lengths differ, else those of the loop.
VerifyPasswordComparisons(password, hash) ==
  LET decoded == Atob(hash) IN
  IF ~decoded.ok THEN 0
  ELSE LET combined == decoded.bytes
           salt == Take(combined, SaltLength)
           storedHash == Slice(combined, SaltLength)
           newHash == DeriveBits(TextEncode(password), salt)
       IN IF Len(storedHash) # Len(newHash) THEN 0
          ELSE CompareLoop(storedHash, newHash).comparisons

\* ------------------------------------------------------------ the database
\* users.password is null for an account created by OAuth; null and "" are
\* both falsy in `!user.password`.
NoPassword == << >>

\* The passwords the model's clients type (loginSchema: at least 6
\* characters): "secret", "secreT" and "sécret".
Passwords ==
  { <<115, 101, 99, 114, 101, 116>>,
    <<115, 101, 99, 114, 101, 84>>,
    <<115, 233, 99, 114, 101, 116>> }

\* The salts crypto.getRandomValues(new Uint8Array(16)) draws in the model.
Salts ==
  { [i \in 1..SaltLength |-> 0],
    [i \in 1..SaltLength |-> (i * 37 + 218) % 256] }

\* Stored strings that hashPassword did not produce: characters outside the
\* alphabet, a length of 1 modulo 4, "=" inside, eight bytes, a salt alone,
\* a hash cut after 60 characters, and salt and key of "secret" with the
\* last byte missing and with one byte more.
ImportedHashes ==
  LET salt == [i \in 1..SaltLength |-> (i * 37 + 218) % 256]
      combined ==
        salt \o DeriveBits(TextEncode(<<115, 101, 99, 114, 101, 116>>), salt)
  IN { <<39, 40, 45, OtherChar, 26, OtherChar, OtherChar, OtherChar>>,
       <<19, 22, 5, 46, 19>>,
       <<19, PadChar, 22, 5>>,
       Btoa(<<112, 97, 115, 115, 119, 111, 114, 100>>),
       Btoa(salt),
       Take(Btoa(combined), 60),
       Btoa(Take(combined, SaltLength + KeyLength - 1)),
       Btoa(combined \o <<0>>) }

\* A row of the users table; `plain` remembers the password a registration
\* hashed (it is not stored by the program).
UserRow(payload, password, plain) ==
  [userId |-> payload.userId, email |-> payload.email,
   username |-> payload.username, password |-> password, plain |-> plain]

\* The users table when the process starts: empty, or one row that was
\* written by other means than POST /auth/register.
InitialTables ==
  {<< >>} \cup
  { [e \in {payload.email} |-> UserRow(payload, h, << >>)] :
      payload \in Payloads, h \in ImportedHashes }

\* The emails a login is tried with: those of the known identities and one
\* that never has an account.
Emails == {p.email : p \in Payloads} \cup {"nobody@x.com"}

ProviderAccountIds == {"google-1", "google-2"}

\* getUserByEmail(email): the row, or none.
HasUser(email) == email \in DOMAIN users

\* {userId, email, username: user.username || undefined} of a row
Identity(user) ==
  [userId |-> user.userId, email |-> user.email, username |-> user.username]

\* The answer of a credential route, and `answer` before any request.
Answer(op, email, status, error, message) ==
  [op |-> op, email |-> email, status |-> status, error |-> error,
   message |-> message]

NoAnswer == Answer("", "", 0, "", "")

\* ------------------------------------------------- requests in several steps
\* The protected requests that are followed await by await.
Requests == {"r1", "r2"}

Idle == [pc |-> "idle", kind |-> "", token |-> EmptyToken, status |-> ""]

\* ---------------------------------------------------------------- requests
\* `last` when no token operation has been served yet.
NoRequest == ""

\* The JSON answer of a handler: status, error and message, and the token
\* pair in the data of a login or refresh answer.
Response(status, error, message, accessToken, refreshToken) ==
  [status |-> status, error |-> error, message |-> message,
   accessToken |-> accessToken, refreshToken |-> refreshToken]

SetRegistry(reg) ==
  /\ blacklistedTokens' = reg.blacklistedTokens
  /\ userTokens' = reg.userTokens

WithinPairs(pair) == Cardinality(issuedPairs \cup {pair}) <= MaxPairs

\* The process has started: the secrets are read, the registry is empty.
InitRegistry ==
  /\ \E env \in Environments :
       /\ JWT_SECRET = IF env.JWT_SECRET # "" THEN env.JWT_SECRET
                       ELSE DefaultJwtSecret
       /\ REFRESH_SECRET = IF env.REFRESH_SECRET # "" THEN env.REFRESH_SECRET
                           ELSE DefaultRefreshSecret
  /\ now = 0
  /\ blacklistedTokens = {}
  /\ userTokens = << >>
  /\ issuedPairs = {}
  /\ last = NoRequest

Init ==
  /\ InitRegistry
  /\ users = << >>
  /\ accounts = << >>
  /\ answer = NoAnswer
  /\ inflight = [r \in Requests |-> Idle]

\* A successful login, registration or OAuth sign-in of the user with the
\* given identity: JWTService.generateTokenPair(payload).
IssueTokenPair(payload) ==
  LET g == GenerateTokenPair(Registry, payload)
      pair == [accessToken |-> g.accessToken, refreshToken |-> g.refreshToken]
  IN /\ WithinPairs(pair)
     /\ SetRegistry(g.reg)
     /\ issuedPairs' = issuedPairs \cup {pair}
     /\ last' = "issue"
     /\ UNCHANGED <<JWT_SECRET, REFRESH_SECRET, now, credentialVars,
                     inflight>>

\* POST /auth/refresh with body {refreshToken}: the answer.
RefreshResponse(refreshToken) ==
  LET v == VerifyRefreshToken(refreshToken) IN
  IF v.ok
  THEN LET g == GenerateTokenPair(Registry,
                  [userId |-> v.payload.userId, email |-> v.payload.email,
                   username |-> v.payload.username])
       IN Response(200, "", "Token refreshed successfully",
                   g.accessToken, g.refreshToken)
  ELSE Response(401, "Invalid or expired refresh token", "",
                EmptyToken, EmptyToken)

\* POST /auth/refresh that decodes the presented token without verifying it.
RefreshUnverified(refreshToken) ==
  IF refreshToken.alg = "HS256"
  THEN LET payload == [userId |-> refreshToken.payload.userId,
                       email |-> refreshToken.payload.email,
                       username |-> refreshToken.payload.username]
           g == GenerateTokenPair(Registry, payload)
           pair == [accessToken |-> g.accessToken,
                    refreshToken |-> g.refreshToken]
       IN /\ WithinPairs(pair)
          /\ SetRegistry(g.reg)
          /\ issuedPairs' = issuedPairs \cup {pair}
          /\ last' = "refresh"
          /\ UNCHANGED <<JWT_SECRET, REFRESH_SECRET, now, credentialVars,
                     inflight>>
  ELSE UNCHANGED vars

\* POST /auth/refresh that revokes the presented token after issuing the pair.
RefreshRotating(refreshToken) ==
  LET v == VerifyRefreshToken(refreshToken) IN
  IF v.ok
  THEN LET payload == [userId |-> v.payload.userId, email |-> v.payload.email,
                       username |-> v.payload.username]
           g == GenerateTokenPair(Registry, payload)
           pair == [accessToken |-> g.accessToken,
                    refreshToken |-> g.refreshToken]
       IN /\ WithinPairs(pair)
          /\ SetRegistry(RemoveUserToken(BlacklistToken(g.reg, refreshToken),
                                         payload.userId, refreshToken))
          /\ issuedPairs' = issuedPairs \cup {pair}
          /\ last' = "refresh"
          /\ UNCHANGED <<JWT_SECRET, REFRESH_SECRET, now, credentialVars,
                     inflight>>
  ELSE UNCHANGED vars

\* POST /auth/refresh with body {refreshToken}
Refresh(refreshToken) ==
  LET v == VerifyRefreshToken(refreshToken) IN
  IF v.ok
  THEN LET payload == [userId |-> v.payload.userId, email |-> v.payload.email,
                       username |-> v.payload.username]
           g == GenerateTokenPair(Registry, payload)
           pair == [accessToken |-> g.accessToken,
                    refreshToken |-> g.refreshToken]
       IN /\ WithinPairs(pair)
          /\ SetRegistry(g.reg)
          /\ issuedPairs' = issuedPairs \cup {pair}
          /\ last' = "refresh"
          /\ UNCHANGED <<JWT_SECRET, REFRESH_SECRET, now, credentialVars,
                     inflight>>
  ELSE UNCHANGED vars

\* GET /auth/me and every other route protected by requireAuth: the answer
\* (the handler's own answer is 200 for a user the store knows).
MeResponse(header) ==
  LET a == RequireAuth(header) IN
  Response(a.status, a.error, a.message, EmptyToken, EmptyToken)

\* GET /auth/me: reads the registry and the clock, changes nothing.
Me(header) == UNCHANGED vars

\* POST /auth/logout: the answer.
LogoutResponse(header) ==
  LET a == RequireAuth(header) IN
  IF a.next
  THEN Response(200, "", "Logged out successfully", EmptyToken, EmptyToken)
  ELSE Response(a.status, a.error, a.message, EmptyToken, EmptyToken)

\* The handler reads the body only when requireAuth let the request through.
LogoutBodies(header) ==
  IF RequireAuth(header).next THEN BodyTokens ELSE {EmptyToken}

\* POST /auth/logout with an optional body {refreshToken}
Logout(header, refreshToken) ==
  LET a == RequireAuth(header) IN
  IF a.next
  THEN /\ SetRegistry(InvalidateTokens(Registry, a.user.userId,
                                       StripBearer(header), refreshToken))
       /\ last' = "logout"
       /\ UNCHANGED <<JWT_SECRET, REFRESH_SECRET, now, issuedPairs,
                      credentialVars, inflight>>
  ELSE UNCHANGED vars

\* POST /auth/logout-all: the answer.
LogoutAllResponse(header) ==
  LET a == RequireAuth(header) IN
  IF a.next
  THEN Response(200, "", "Logged out from all devices successfully",
                EmptyToken, EmptyToken)
  ELSE Response(a.status, a.error, a.message, EmptyToken, EmptyToken)

\* POST /auth/logout-all
LogoutAll(header) ==
  LET a == RequireAuth(header) IN
  IF a.next
  THEN /\ SetRegistry(InvalidateAllUserTokens(Registry, a.user.userId))
       /\ last' = "logout-all"
       /\ UNCHANGED <<JWT_SECRET, REFRESH_SECRET, now, issuedPairs,
                      credentialVars, inflight>>
  ELSE UNCHANGED vars

\* The instants the clock is sampled at after the start of the run (second
\* 0): one second before and one second after the expiry of an access token
\* and of a refresh token issued at the start.
Instants ==
  { AccessLifetime - 1, AccessLifetime + 1,
    RefreshLifetime - 1, RefreshLifetime + 1 }

\* The wall clock advances to a later instant.
Tick(instant) ==
  /\ instant > now
  /\ now' = instant
  /\ UNCHANGED <<JWT_SECRET, REFRESH_SECRET, blacklistedTokens, userTokens,
                 issuedPairs, last, credentialVars, inflight>>

Next ==
  \/ \E payload \in Payloads : IssueTokenPair(payload)
  \/ \E token \in RequestTokens : Refresh(token)
  \/ \E header \in Headers : Me(header)
  \/ \E header \in Headers :
       \E body \in LogoutBodies(header) : Logout(header, body)
  \/ \E header \in Headers : LogoutAll(header)
  \/ \E instant \in Instants : Tick(instant)

Spec == Init /\ [][Next]_vars

\* ----------------------------------------------------------- process restart
\* A restart that reloads the registry from a durable store.
RestartDurable ==
  /\ last' = "restart"
  /\ UNCHANGED <<JWT_SECRET, REFRESH_SECRET, now, blacklistedTokens,
                 userTokens, issuedPairs, credentialVars, inflight>>

\* The process is stopped and started again in the same environment: the
\* module-level Set and Map of tokenBlacklist.ts are created anew; the
\* secrets are read again from the same environment; the tokens clients hold
\* stay with the clients.
Restart ==
  /\ blacklistedTokens' = {}
  /\ userTokens' = << >>
  /\ last' = "restart"
  /\ UNCHANGED <<JWT_SECRET, REFRESH_SECRET, now, issuedPairs,
                      credentialVars, inflight>>

NextRestart ==
  \/ Next
  \/ Restart

SpecRestart == Init /\ [][NextRestart]_vars

\* The wall clock does not stop: whenever a later instant exists, the clock
\* gets there.
SpecFair == Spec /\ WF_vars(\E instant \in Instants : Tick(instant))

\* ------------------------------------------------- routes/auth.ts: sign-in
\* What login, register and oauth do once the user is known:
\* JWTService.generateTokenPair of the row's identity.
SignIn(user) ==
  LET g == GenerateTokenPair(Registry, Identity(user))
      pair == [accessToken |-> g.accessToken, refreshToken |-> g.refreshToken]
  IN /\ WithinPairs(pair)
     /\ SetRegistry(g.reg)
     /\ issuedPairs' = issuedPairs \cup {pair}
     /\ last' = "issue"

NoSignIn == UNCHANGED <<blacklistedTokens, userTokens, issuedPairs, last>>

\* POST /auth/login {email, password}: the answer.
LoginResponse(email, password) ==
  IF ~HasUser(email)
  THEN Answer("login", email, 401, "Invalid credentials", "")
  ELSE IF users[email].password = NoPassword
  THEN Answer("login", email, 400,
              "This account uses OAuth login. Please use Google login.", "")
  ELSE LET v == VerifyPassword(password, users[email].password) IN
    IF v.threw THEN Answer("login", email, 500, "Login failed", "")
    ELSE IF ~v.result
    THEN Answer("login", email, 401, "Invalid credentials", "")
    ELSE Answer("login", email, 200, "", "Login successful")

\* POST /auth/login that answers a wrong password by revoking every session
\* of the account.
LoginLockout(email, password) ==
  LET resp == LoginResponse(email, password) IN
  /\ answer' = resp
  /\ IF resp.status = 200 THEN SignIn(users[email])
     ELSE IF resp.status = 401 /\ HasUser(email)
     THEN /\ SetRegistry(BlacklistAllUserTokens(Registry,
                                                users[email].userId))
          /\ UNCHANGED <<issuedPairs, last>>
     ELSE NoSignIn
  /\ UNCHANGED <<JWT_SECRET, REFRESH_SECRET, now, users, accounts, inflight>>

\* POST /auth/login {email, password}
Login(email, password) ==
  LET resp == LoginResponse(email, password) IN
  /\ answer' = resp
  /\ IF resp.status = 200 THEN SignIn(users[email]) ELSE NoSignIn
  /\ UNCHANGED <<JWT_SECRET, REFRESH_SECRET, now, users, accounts, inflight>>

\* POST /auth/register for the identity `payload` with the given password;
\* `salt` is what hashPassword draws.
Register(payload, password, salt) ==
  IF HasUser(payload.email)
  THEN /\ answer' = Answer("register", payload.email, 400,
                           "Email already exists", "")
       /\ NoSignIn
       /\ UNCHANGED <<JWT_SECRET, REFRESH_SECRET, now, users, accounts,
                      inflight>>
  ELSE LET user == UserRow(payload, HashPassword(password, salt), password)
       IN /\ users' = [e \in DOMAIN users \cup {payload.email} |->
                         IF e = payload.email THEN user ELSE users[e]]
          /\ SignIn(user)
          /\ answer' = Answer("register", payload.email, 201, "",
                              "Registration successful")
          /\ UNCHANGED <<JWT_SECRET, REFRESH_SECRET, now, accounts, inflight>>

\* POST /auth/oauth {provider, providerAccountId, email, ..}: the provider
\* account is known, or the email is known and the account gets linked, or a
\* user without a password is created with the account.
OAuth(providerAccountId, payload) ==
  IF providerAccountId \in DOMAIN accounts
  THEN LET user == CHOOSE row \in {users[e] : e \in DOMAIN users} :
                     row.userId = accounts[providerAccountId]
       IN /\ SignIn(user)
          /\ answer' = Answer("oauth", user.email, 200, "", "")
          /\ UNCHANGED <<JWT_SECRET, REFRESH_SECRET, now, users, accounts,
                         inflight>>
  ELSE LET user == IF HasUser(payload.email) THEN users[payload.email]
                   ELSE UserRow(payload, NoPassword, << >>)
       IN /\ users' = [e \in DOMAIN users \cup {payload.email} |->
                         IF e = payload.email THEN user ELSE users[e]]
          /\ accounts' = [a \in DOMAIN accounts \cup {providerAccountId} |->
                            IF a = providerAccountId THEN user.userId
                            ELSE accounts[a]]
          /\ SignIn(user)
          /\ answer' = Answer("oauth", payload.email,
                              IF HasUser(payload.email) THEN 200 ELSE 201,
                              "", "")
          /\ UNCHANGED <<JWT_SECRET, REFRESH_SECRET, now, inflight>>

InitCredentials ==
  /\ InitRegistry
  /\ users \in InitialTables
  /\ accounts = << >>
  /\ answer = NoAnswer
  /\ inflight = [r \in Requests |-> Idle]

NextCredentials ==
  \/ \E email \in Emails, password \in Passwords : Login(email, password)
  \/ \E payload \in Payloads, password \in Passwords, salt \in Salts :
       Register(payload, password, salt)
  \/ \E providerAccountId \in ProviderAccountIds, payload \in Payloads :
       OAuth(providerAccountId, payload)

SpecCredentials == InitCredentials /\ [][NextCredentials]_vars

\* ------------------------------------------- sign-in and the token routes
\* The provider account the OAuth sign-ins of SpecSession come with.
SessionProviderAccountIds == {"google-1"}

\* The credential routes together with the routes that verify a token:
\* refresh, a protected GET and logout-all, all within one clock second.
NextSession ==
  \/ \E email \in Emails, password \in Passwords : Login(email, password)
  \/ \E payload \in Payloads, password \in Passwords, salt \in Salts :
       Register(payload, password, salt)
  \/ \E providerAccountId \in SessionProviderAccountIds,
         payload \in Payloads : OAuth(providerAccountId, payload)
  \/ \E token \in RequestTokens : Refresh(token)
  \/ \E header \in Headers : Me(header)
  \/ \E header \in Headers : LogoutAll(header)

SpecSession == InitCredentials /\ [][NextSession]_vars

\* ------------------------------------- protected requests, await by await
\* The routes behind requireAuth that the steps below follow.
Kinds == {"me", "logout", "logout-all"}

Settle(r, status) ==
  inflight' = [inflight EXCEPT ![r] = [Idle EXCEPT !.status = status]]

\* A request arrives and runs up to its first await: requireAuth reads the
\* header, verifyAccessToken looks the token up in the blacklist and calls
\* jwtVerify, whose promise suspends the request.
Arrive(r, kind, header) ==
  /\ inflight[r].pc = "idle"
  /\ IF ~header.present \/ StripBearer(header) = EmptyToken
        \/ IsTokenBlacklisted(StripBearer(header))
     THEN Settle(r, "401")
     ELSE inflight' = [inflight EXCEPT ![r] =
            [pc |-> "jwtVerify", kind |-> kind,
             token |-> StripBearer(header), status |-> ""]]
  /\ UNCHANGED <<JWT_SECRET, REFRESH_SECRET, now, blacklistedTokens,
                 userTokens, issuedPairs, last, credentialVars>>

\* jwtVerify settles and the request runs up to its next await:
\* verifyAccessToken checks the type and returns the payload, requireAuth
\* sets the user and calls next(); the handler of logout-all revokes at once,
\* the handler of logout suspends reading the body.
ResumeVerify(r) ==
  LET req == inflight[r]
      v == JwtVerify(req.token, JWT_SECRET, now)
  IN /\ req.pc = "jwtVerify"
     /\ IF ~v.ok \/ req.token.payload.type # "access"
        THEN /\ Settle(r, "401")
             /\ UNCHANGED <<blacklistedTokens, userTokens, last>>
        ELSE IF req.kind = "logout"
        THEN /\ inflight' = [inflight EXCEPT ![r] =
                  [req EXCEPT !.pc = "body", !.status = "verified"]]
             /\ UNCHANGED <<blacklistedTokens, userTokens, last>>
        ELSE IF req.kind = "logout-all"
        THEN /\ SetRegistry(InvalidateAllUserTokens(Registry,
                                                    req.token.payload.userId))
             /\ last' = "logout-all"
             /\ Settle(r, "verified")
        ELSE /\ Settle(r, "verified")
             /\ UNCHANGED <<blacklistedTokens, userTokens, last>>
     /\ UNCHANGED <<JWT_SECRET, REFRESH_SECRET, now, issuedPairs,
                    credentialVars>>

\* c.req.json() settles: the handler of logout revokes the header's token
\* and body.refreshToken and answers.
ReadBody(r, refreshToken) ==
  LET req == inflight[r] IN
  /\ req.pc = "body"
  /\ SetRegistry(InvalidateTokens(Registry, req.token.payload.userId,
                                  req.token, refreshToken))
  /\ last' = "logout"
  /\ Settle(r, "200")
  /\ UNCHANGED <<JWT_SECRET, REFRESH_SECRET, now, issuedPairs, credentialVars>>

NextAsync ==
  \/ \E payload \in Payloads : IssueTokenPair(payload)
  \/ \E r \in Requests, kind \in Kinds, header \in Headers :
       Arrive(r, kind, header)
  \/ \E r \in Requests : ResumeVerify(r)
  \/ \E r \in Requests, body \in BodyTokens : ReadBody(r, body)

SpecAsync == Init /\ [][NextAsync]_vars

\* --------------------------------------------- issuance, await by await
\* generateTokenPair is called (by login, register, oauth or refresh) and
\* runs up to its await: generateAccessToken and generateRefreshToken stamp
\* the claims at the current second and start signing, and Promise.all
\* suspends the request.
BeginIssue(r, payload) ==
  LET accessToken == GenerateAccessToken(payload, now)
      refreshToken == GenerateRefreshToken(payload, now)
  IN /\ inflight[r].pc = "idle"
     /\ WithinPairs([accessToken |-> accessToken,
                     refreshToken |-> refreshToken])
     /\ inflight' = [inflight EXCEPT ![r] =
          [pc |-> "signing", kind |-> "issue", token |-> accessToken,
           status |-> "", refreshToken |-> refreshToken]]
     /\ UNCHANGED <<JWT_SECRET, REFRESH_SECRET, now, blacklistedTokens,
                    userTokens, issuedPairs, last, credentialVars>>

\* generateTokenPair that awaits between the two addUserToken calls: the
\* first resumption tracks the access token, the second the refresh token.
ResumeIssueSuspending(r) ==
  LET req == inflight[r]
      userId == req.token.payload.userId
  IN /\ req.pc = "signing"
     /\ IF req.status = ""
        THEN /\ SetRegistry(AddUserToken(Registry, userId, req.token))
             /\ inflight' = [inflight EXCEPT ![r] =
                  [req EXCEPT !.status = "tracking"]]
             /\ UNCHANGED <<issuedPairs, last>>
        ELSE /\ SetRegistry(AddUserToken(Registry, userId, req.refreshToken))
             /\ issuedPairs' = issuedPairs \cup
                  {[accessToken |-> req.token,
                    refreshToken |-> req.refreshToken]}
             /\ last' = "issue"
             /\ Settle(r, "200")
     /\ UNCHANGED <<JWT_SECRET, REFRESH_SECRET, now, credentialVars>>

\* Promise.all settles and generateTokenPair runs to its end: the two
\* addUserToken calls and the return of the pair.
ResumeIssue(r) ==
  LET req == inflight[r]
      userId == req.token.payload.userId
  IN /\ req.pc = "signing"
     /\ SetRegistry(AddUserToken(AddUserToken(Registry, userId, req.token),
                                 userId, req.refreshToken))
     /\ issuedPairs' = issuedPairs \cup
          {[accessToken |-> req.token, refreshToken |-> req.refreshToken]}
     /\ last' = "issue"
     /\ Settle(r, "200")
     /\ UNCHANGED <<JWT_SECRET, REFRESH_SECRET, now, credentialVars>>

\* The protected routes that run next to an issuance.
IssueKinds == {"me", "logout-all"}

\* The one later instant the clock of SpecIssueAsync is sampled at.
IssueInstants == {AccessLifetime - 1}

NextIssueAsync ==
  \/ \E r \in Requests, payload \in Payloads : BeginIssue(r, payload)
  \/ \E r \in Requests : ResumeIssue(r)
  \/ \E r \in Requests, kind \in IssueKinds, header \in Headers :
       Arrive(r, kind, header)
  \/ \E r \in Requests : ResumeVerify(r)
  \/ \E instant \in IssueInstants : Tick(instant)

SpecIssueAsync == Init /\ [][NextIssueAsync]_vars

\* ================================================================== claims
\* A token verifies on the path of its own class.
Verifies(t) ==
  IF t.payload.type = "access" THEN VerifyAccessToken(t).ok
  ELSE VerifyRefreshToken(t).ok

\* Signature, issuer, audience and expiry of t are valid under the key.
CryptoValid(t, key) == JwtVerify(t, key, now).ok

\* The step changes the blacklist, the index or the issued pairs (a step
\* that changes none of them has nothing to answer for).
RegistryChanges ==
  <<blacklistedTokens, userTokens, issuedPairs>>'
    # <<blacklistedTokens, userTokens, issuedPairs>>

\* C1. Revocation precedence: every blacklisted token fails verifyAccessToken
\* and verifyRefreshToken, and the failure is raised by the blacklist lookup,
\* before the signature is looked at.
C1_RevocationPrecedence ==
  \A t \in blacklistedTokens :
    /\ ~VerifyAccessToken(t).ok
    /\ ~VerifyRefreshToken(t).ok
    /\ VerifyAccessToken(t).cause = "Token has been invalidated"
    /\ VerifyRefreshToken(t).cause = "Token has been invalidated"

\* A blacklisted access token and a blacklisted refresh token that are
\* correctly signed, of the right type and unexpired.
C1_Witness ==
  /\ \E t \in blacklistedTokens :
       CryptoValid(t, JWT_SECRET) /\ t.payload.type = "access"
  /\ \E t \in blacklistedTokens :
       CryptoValid(t, REFRESH_SECRET) /\ t.payload.type = "refresh"

\* C2. Logout scoping: a served POST /auth/logout makes its access token fail
\* verification (a protected route answers it with 401), and every other
\* tracked token of the same user that is unexpired, not blacklisted and not
\* named in the request still verifies.
C2_LogoutStep ==
  last' = "logout" =>
    \A header \in Headers :
      RequireAuth(header).next =>
        \A body \in BodyTokens :
          Logout(header, body) =>
            LET u == RequireAuth(header).user.userId
                a == StripBearer(header)
            IN /\ ~VerifyAccessToken(a).ok'
               /\ RequireAuth(header).status' = 401
               /\ u \in DOMAIN userTokens =>
                  \A t \in userTokens[u] \ {a, body} :
                    (t \notin blacklistedTokens /\ t.payload.exp > now)
                      => Verifies(t)'

C2_LogoutScoping == [][C2_LogoutStep]_vars

\* After a logout of a user, one of the user's tokens is revoked although it
\* is otherwise valid, and another token of that user still verifies.
C2_Witness ==
  /\ last = "logout"
  /\ \E a \in blacklistedTokens :
       /\ a.payload.type = "access"
       /\ CryptoValid(a, JWT_SECRET)
       /\ a.payload.userId \in DOMAIN userTokens
       /\ \E t \in userTokens[a.payload.userId] :
            t.payload.type = "access" /\ Verifies(t)

\* C3. Logout-all scoping: a served POST /auth/logout-all makes every token
\* tracked for the user fail both verifications, and every issued token of
\* every other user verifies exactly as before.
C3_LogoutAllStep ==
  last' = "logout-all" =>
  \A header \in Headers :
    (RequireAuth(header).next /\ LogoutAll(header)) =>
      LET u == RequireAuth(header).user.userId IN
      /\ u \in DOMAIN userTokens =>
           \A t \in userTokens[u] :
             ~VerifyAccessToken(t).ok' /\ ~VerifyRefreshToken(t).ok'
      /\ \A t \in IssuedTokens :
           t.payload.userId # u =>
             /\ VerifyAccessToken(t)' = VerifyAccessToken(t)
             /\ VerifyRefreshToken(t)' = VerifyRefreshToken(t)

C3_LogoutAllScoping == [][C3_LogoutAllStep]_vars

\* After a logout-all, two otherwise valid tokens of the user are revoked
\* while a token of another user verifies.
C3_Witness ==
  /\ last = "logout-all"
  /\ \E a, r \in blacklistedTokens :
       /\ a.payload.userId = r.payload.userId
       /\ a.payload.userId \notin DOMAIN userTokens
       /\ a.payload.type = "access" /\ CryptoValid(a, JWT_SECRET)
       /\ r.payload.type = "refresh" /\ CryptoValid(r, REFRESH_SECRET)
       /\ \E t \in IssuedTokens :
            t.payload.userId # a.payload.userId /\ Verifies(t)

\* C4. End-to-end session lifecycle: the access token of a pair that
\* issueTokenPair returns verifies with the issued claims, and so does the
\* refresh token, whenever the call is made (also right after a logout).
C4_IssueStep ==
  \A payload \in Payloads :
    IssueTokenPair(payload) =>
      LET g == GenerateTokenPair(Registry, payload) IN
      /\ VerifyAccessToken(g.accessToken).ok'
      /\ VerifyAccessToken(g.accessToken).payload.userId' = payload.userId
      /\ VerifyAccessToken(g.accessToken).payload.email' = payload.email
      /\ VerifyRefreshToken(g.refreshToken).ok'

C4_FreshPairVerifies == [][C4_IssueStep]_vars

\* C5. Cross-secret forgery rejection: no issued refresh token passes
\* verifyAccessToken and no issued access token passes verifyRefreshToken,
\* at any time and whether or not it is blacklisted.
C5_CrossSecretRejection ==
  \A pair \in issuedPairs :
    /\ ~VerifyAccessToken(pair.refreshToken).ok
    /\ ~VerifyRefreshToken(pair.accessToken).ok

\* An issued pair whose tokens are neither expired nor blacklisted, so that
\* only the key and the type stand between them and the other path.
C5_Witness ==
  \E pair \in issuedPairs :
    /\ Verifies(pair.accessToken)
    /\ Verifies(pair.refreshToken)

\* C6. The class must match the path independently of the secrets: a token
\* whose signature, issuer, audience and expiry are valid under the access
\* secret but whose type is not "access" fails verifyAccessToken, and
\* symmetrically for the refresh secret and "refresh".
C6_TypeMustMatch ==
  \A t \in Presentable :
    /\ (CryptoValid(t, JWT_SECRET) /\ t.payload.type # "access")
         => ~VerifyAccessToken(t).ok
    /\ (CryptoValid(t, REFRESH_SECRET) /\ t.payload.type # "refresh")
         => ~VerifyRefreshToken(t).ok

\* Both secrets are configured to the same value, and an issued refresh token
\* and an issued access token, not blacklisted, are valid under the other
\* path's secret.
C6_Witness ==
  /\ JWT_SECRET = REFRESH_SECRET
  /\ \E pair \in issuedPairs :
       /\ pair.refreshToken \notin blacklistedTokens
       /\ pair.accessToken \notin blacklistedTokens
       /\ CryptoValid(pair.refreshToken, JWT_SECRET)
       /\ CryptoValid(pair.accessToken, REFRESH_SECRET)

\* C7. Expiry boundary: a non-blacklisted access token issued at second t
\* verifies at every second before t+900 and fails at every second after
\* t+900; a non-blacklisted refresh token likewise with 604800.
C7_ExpiryBoundary ==
  \A pair \in issuedPairs :
    LET a == pair.accessToken
        r == pair.refreshToken
    IN /\ a \notin blacklistedTokens =>
            /\ (a.payload.iat <= now /\ now < a.payload.iat + 900)
                 => VerifyAccessToken(a).ok
            /\ now > a.payload.iat + 900 => ~VerifyAccessToken(a).ok
       /\ r \notin blacklistedTokens =>
            /\ (r.payload.iat <= now /\ now < r.payload.iat + 604800)
                 => VerifyRefreshToken(r).ok
            /\ now > r.payload.iat + 604800 => ~VerifyRefreshToken(r).ok

\* One second before the expiry of a non-blacklisted access token.
C7_Witness ==
  \E pair \in issuedPairs :
    /\ pair.accessToken \notin blacklistedTokens
    /\ now = pair.accessToken.payload.iat + 899
    /\ VerifyAccessToken(pair.accessToken).ok

\* C8. Registry invariant: no token is at once in the blacklist and in a
\* user's active-token set.
C8_RegistryInvariant ==
  \A u \in DOMAIN userTokens : userTokens[u] \cap blacklistedTokens = {}

\* The answers given to the tokens that fail verifyAccessToken: the error
\* thrown to the caller and the 401 body requireAuth makes of it.
FailureAnswers ==
  { <<VerifyAccessToken(t).error, RequireAuth(Bearer(t))>> :
      t \in {x \in Presentable : ~VerifyAccessToken(x).ok} }

\* The reasons for which the presentable tokens fail verifyAccessToken.
FailureCauses ==
  { VerifyAccessToken(t).cause :
      t \in {x \in Presentable : ~VerifyAccessToken(x).ok} }

C10_LogoutStep ==
  \A header \in Headers, body \in BodyTokens :
    (last' = "logout" /\ RequireAuth(header).next /\ Logout(header, body)) =>
      \A pair \in issuedPairs :
        pair.accessToken = StripBearer(header) =>
          /\ ~VerifyAccessToken(pair.accessToken).ok'
          /\ ~VerifyRefreshToken(pair.refreshToken).ok'

C10_LogoutInvalidatesSession == [][C10_LogoutStep]_vars

\* C11. Refresh path. A string that is blacklisted, expired, not signed with
\* the refresh secret or not of type "refresh" fails verifyRefreshToken.
C11_BadRefreshToken(t) ==
  \/ t \in blacklistedTokens
  \/ t.alg # "HS256"
  \/ t.sig # HS256(t.payload, REFRESH_SECRET)
  \/ t.payload.exp <= now
  \/ t.payload.type # "refresh"

\* Such a string is answered with 401 and without tokens.
C11_Rejects ==
  \A t \in Presentable :
    C11_BadRefreshToken(t) =>
      LET resp == RefreshResponse(t) IN
      /\ ~VerifyRefreshToken(t).ok
      /\ resp.status = 401
      /\ resp.accessToken = EmptyToken
      /\ resp.refreshToken = EmptyToken

\* A POST /auth/refresh step issues nothing for such a string; for any other
\* it answers 200 with a pair that carries the identity claims of the
\* presented token and is tracked under its userId.
C11_RefreshStep ==
  (last' = "refresh" /\ RegistryChanges) =>
  \A R \in RequestTokens :
    Refresh(R) =>
      IF C11_BadRefreshToken(R) \/ ~VerifyRefreshToken(R).ok
      THEN UNCHANGED <<blacklistedTokens, userTokens, issuedPairs>>
      ELSE LET resp == RefreshResponse(R)
               u == R.payload.userId
           IN /\ resp.status = 200
              /\ [accessToken |-> resp.accessToken,
                  refreshToken |-> resp.refreshToken] \in issuedPairs'
              /\ \A n \in {resp.accessToken, resp.refreshToken} :
                   /\ n.payload.userId = u
                   /\ n.payload.email = R.payload.email
                   /\ n.payload.username = R.payload.username
                   /\ u \in DOMAIN userTokens'
                   /\ n \in userTokens'[u]
              /\ resp.accessToken.payload.type = "access"
              /\ resp.refreshToken.payload.type = "refresh"

C11_RefreshPath == []C11_Rejects /\ [][C11_RefreshStep]_vars

\* A refresh has been served at a later second than the presented token was
\* issued at, so that the pair it issued differs from the presented one, and
\* both new tokens are tracked under the user of the presented token.
C11_Witness ==
  /\ last = "refresh"
  /\ \E old, new \in issuedPairs :
       /\ old.refreshToken.payload.userId = new.refreshToken.payload.userId
       /\ old.refreshToken.payload.iat < new.refreshToken.payload.iat
       /\ new.accessToken \in userTokens[new.accessToken.payload.userId]
       /\ new.refreshToken \in userTokens[new.accessToken.payload.userId]

\* C12. No rotation on refresh: a served POST /auth/refresh leaves the
\* presented refresh token out of the blacklist and in the user's
\* active-token set, so that the token verifies again and a further refresh
\* with it is answered with 200 and a pair.
C12_RefreshStep ==
  (last' = "refresh" /\ RegistryChanges) =>
    \A R \in RequestTokens :
      (VerifyRefreshToken(R).ok /\ Refresh(R)) =>
        /\ R \notin blacklistedTokens'
        /\ (R.payload.userId \in DOMAIN userTokens
              /\ R \in userTokens[R.payload.userId])
             => (R.payload.userId \in DOMAIN userTokens'
                   /\ R \in userTokens'[R.payload.userId])
        /\ VerifyRefreshToken(R).ok'
        /\ RefreshResponse(R).status' = 200
        /\ RefreshResponse(R).accessToken' # EmptyToken
        /\ RefreshResponse(R).refreshToken' # EmptyToken

C13_RestartStep ==
  /\ (last' = "restart" /\ Restart) =>
       /\ blacklistedTokens' = {}
       /\ userTokens' = << >>
       /\ \A t \in IssuedTokens \cap blacklistedTokens :
            t.payload.exp > now => Verifies(t)'
  /\ (last' = "logout-all" /\ RegistryChanges) =>
       \A header \in Headers :
         (RequireAuth(header).next /\ LogoutAll(header)) =>
           LET u == RequireAuth(header).user.userId IN
           \A t \in IssuedTokens :
             ( /\ t.payload.userId = u
               /\ Verifies(t)
               /\ (u \in DOMAIN userTokens => t \notin userTokens[u]) )
               => Verifies(t)'

C14_IssueStep ==
  last' \in {"issue", "refresh"} =>
    \A payload \in Payloads :
      ( \/ IssueTokenPair(payload)
        \/ \E R \in RequestTokens :
             /\ VerifyRefreshToken(R).ok
             /\ R.payload.userId = payload.userId
             /\ R.payload.email = payload.email
             /\ R.payload.username = payload.username
             /\ Refresh(R) ) =>
        LET g == GenerateTokenPair(Registry, payload)
            a == g.accessToken
            r == g.refreshToken
        IN /\ [accessToken |-> a, refreshToken |-> r] \in issuedPairs'
           /\ a.payload.type = "access" /\ r.payload.type = "refresh"
           /\ \A n \in {a, r} :
                /\ n.payload.userId = payload.userId
                /\ n.payload.email = payload.email
                /\ n.payload.username = payload.username
           /\ payload.userId \in DOMAIN userTokens'
           /\ {a, r} \subseteq userTokens'[payload.userId]
           /\ \A u \in UserIds \ {payload.userId} :
                /\ (u \in DOMAIN userTokens') = (u \in DOMAIN userTokens)
                /\ u \in DOMAIN userTokens => userTokens'[u] = userTokens[u]
                /\ u \in DOMAIN userTokens' =>
                     {a, r} \cap userTokens'[u] = {}
           /\ g.tokenType = "Bearer"
           /\ g.expiresIn = 900
           /\ g.expiresIn = a.payload.exp - a.payload.iat

C14_IssuePath == [][C14_IssueStep]_vars

\* A pair has been issued for one user while another user has tracked
\* tokens, and both tokens of the pair are tracked under the first user.
C14_Witness ==
  /\ last \in {"issue", "refresh"}
  /\ \E p \in issuedPairs :
       LET u == p.accessToken.payload.userId IN
       /\ u \in DOMAIN userTokens
       /\ {p.accessToken, p.refreshToken} \subseteq userTokens[u]
       /\ \E v \in DOMAIN userTokens \ {u} :
            {p.accessToken, p.refreshToken} \cap userTokens[v] = {}

\* C15. Password verification is correct for every salt: for every row that
\* a registration wrote with hashPassword(P), whatever salt was drawn, and
\* every password P', verifyPassword(P', stored) is true if P' = P and false
\* otherwise.
C15_VerifyMatchesHash ==
  \A e \in DOMAIN users :
    users[e].plain # << >> =>
      \A password \in Passwords :
        LET v == VerifyPassword(password, users[e].password) IN
        /\ ~v.threw
        /\ v.result = (password = users[e].plain)

\* A user registered with a salt other than zero has logged in with the
\* password of the registration, and a login of that user with another
\* password is answered with 401.
C15_Witness ==
  /\ answer.op = "login" /\ answer.status = 200
  /\ answer.email \in DOMAIN users
  /\ users[answer.email].plain # << >>
  /\ \E i \in 1..SaltLength :
       Atob(users[answer.email].password).bytes[i] # 0
  /\ \E password \in Passwords :
       LoginResponse(answer.email, password).status = 401

\* A stored string that fails to decode, decodes to fewer than 16+32 bytes,
\* or whose part after the salt is not 32 bytes long.
C16_Malformed(hash) ==
  LET decoded == Atob(hash) IN
  \/ ~decoded.ok
  \/ Len(decoded.bytes) < 16 + 32
  \/ Len(Slice(decoded.bytes, 16)) # 32

\* C16. Malformed hash resilience: verifyPassword never throws to its
\* caller (so that no login is answered with 500), and it returns false for
\* every password and every malformed stored string.
C16_MalformedHashResilience ==
  /\ answer.op = "login" => answer.status # 500
  /\ \A e \in DOMAIN users, password \in Passwords :
       LET v == VerifyPassword(password, users[e].password) IN
       /\ ~v.threw
       /\ C16_Malformed(users[e].password) => ~v.result

\* A login has been refused with 401 for a user whose stored string is not
\* base64, and the exception of the decoding was swallowed.
C16_Witness ==
  /\ answer.op = "login" /\ answer.status = 401
  /\ answer.email \in DOMAIN users
  /\ users[answer.email].password # NoPassword
  /\ ~Atob(users[answer.email].password).ok
  /\ \A password \in Passwords :
       VerifyPassword(password, users[answer.email].password).cause
         = "InvalidCharacterError"

\* The tokens generateTokenPair can return at second 0, and the access
\* tokens it can return just before and just after second 900, under either
\* deployment: the tokens whose expiry the clock of the model goes beyond.
C17_Tokens ==
  LET keys == { [access |-> DefaultJwtSecret,
                 refresh |-> DefaultRefreshSecret],
                [access |-> "configured-secret",
                 refresh |-> "configured-secret"] }
  IN { SignJWT(AccessClaims(payload, t), k.access) :
         payload \in Payloads,
         t \in {0, AccessLifetime - 1, AccessLifetime + 1}, k \in keys }
     \cup
     { SignJWT(RefreshClaims(payload, 0), k.refresh) :
         payload \in Payloads, k \in keys }

\* C17. Every token eventually becomes unusable: once a token is issued, a
\* point is reached after which it fails verifyAccessToken and
\* verifyRefreshToken forever, whatever is issued, refreshed or revoked
\* meanwhile, provided the clock advances.
C17_EventuallyUnusable ==
  \A t \in C17_Tokens :
    [](t \in IssuedTokens =>
         <>[](~VerifyAccessToken(t).ok /\ ~VerifyRefreshToken(t).ok))

\* The clock is past the expiry of an access and of a refresh token that
\* were never revoked, a later pair was issued by a refresh, and both fail.
C17_Witness ==
  /\ \E p \in issuedPairs :
       /\ {p.accessToken, p.refreshToken} \subseteq C17_Tokens
       /\ {p.accessToken, p.refreshToken} \cap blacklistedTokens = {}
       /\ now > p.refreshToken.payload.exp
       /\ ~VerifyAccessToken(p.accessToken).ok
       /\ ~VerifyRefreshToken(p.refreshToken).ok
       /\ \E q \in issuedPairs :
            q.accessToken.payload.iat > p.accessToken.payload.iat

\* C18. Asynchronous suspension does not affect verification: whenever the
\* verification of a request reports success (jwtVerify has settled, the type
\* is right, the handler is let run), the token is not in the blacklist.
C18_Step ==
  \A r \in Requests :
    (inflight[r].pc = "jwtVerify" /\ inflight'[r].status = "verified") =>
      inflight[r].token \notin blacklistedTokens

C18_NoStaleSuccess == [][C18_Step]_vars

\* C19. Credential failures are indistinguishable: a login that does not
\* succeed is answered in the same way (401, "Invalid credentials") whether
\* or not a user record exists for the email, for every password.
C19_CredentialFailuresIndistinguishable ==
  \A e1, e2 \in Emails, password \in Passwords :
    LET none == LoginResponse(e1, password)
        some == LoginResponse(e2, password)
    IN (~HasUser(e1) /\ HasUser(e2) /\ some.status # 200) =>
         /\ some.status = none.status
         /\ some.error = none.error
         /\ some.message = none.message
         /\ some.status = 401
         /\ some.error = "Invalid credentials"

\* C20. requireAuth gate, for every header the model's clients and forgers
\* can send: the handler runs only if verifyAccessToken succeeded on the
\* header's token, and then the context user is that token's userId, email
\* and username; a missing header, an empty token and every verification
\* failure are answered with 401 and the handler does not run.
C20_Gate ==
  \A header \in Headers \cup {Bearer(t) : t \in Presentable} :
    LET a == RequireAuth(header)
        token == StripBearer(header)
        refused == \/ ~header.present
                   \/ token = EmptyToken
                   \/ ~VerifyAccessToken(token).ok
    IN /\ a.next = ~refused
       /\ a.next =>
            /\ a.user.userId = token.payload.userId
            /\ a.user.email = token.payload.email
            /\ a.user.username = token.payload.username
            /\ token.payload.type = "access"
            /\ token \notin blacklistedTokens
       /\ refused => (a.status = 401 /\ a.user = NoUser)

\* The handlers of logout and logout-all do not touch the registry for a
\* request that requireAuth refused.
C20_Step ==
  RegistryChanges =>
  \A header \in Headers :
    ~RequireAuth(header).next =>
      /\ (\E body \in BodyTokens : Logout(header, body))
           => UNCHANGED <<blacklistedTokens, userTokens, last>>
      /\ LogoutAll(header)
           => UNCHANGED <<blacklistedTokens, userTokens, last>>

C20_RequireAuthGate == []C20_Gate /\ [][C20_Step]_vars

\* A logout handler has run; one header passes the gate with its user, and a
\* revoked access token and an unexpired refresh token are each refused
\* with 401.
C20_Witness ==
  /\ last = "logout"
  /\ \E t \in IssuedTokens :
       /\ RequireAuth(Bearer(t)).next
       /\ RequireAuth(Bearer(t)).user.userId = t.payload.userId
  /\ \E t \in blacklistedTokens :
       t.payload.type = "access" /\ RequireAuth(Bearer(t)).status = 401
  /\ \E t \in IssuedTokens \ blacklistedTokens :
       /\ t.payload.type = "refresh"
       /\ t.payload.exp > now
       /\ RequireAuth(Bearer(t)).status = 401

\* cleanExpiredTokens leaves the registry as it is.
C21_CleanKeeps == CleanExpiredTokens(Registry) = Registry

\* No step of the running process removes a token from the blacklist, and a
\* string the requests carry (an issued token of either class, or a string
\* that is no JWT) that fails verifyAccessToken (verifyRefreshToken) before
\* a step fails it after the step.
C21_Step ==
  /\ blacklistedTokens \subseteq blacklistedTokens'
  /\ (blacklistedTokens' # blacklistedTokens \/ now' # now) =>
       \A t \in RequestTokens :
         /\ ~VerifyAccessToken(t).ok => ~VerifyAccessToken(t).ok'
         /\ ~VerifyRefreshToken(t).ok => ~VerifyRefreshToken(t).ok'

\* C21. Verification failure is permanent within a process lifetime: no
\* operation, cleanExpiredTokens included, removes a token from the
\* blacklist, and with the clock of the model, which never goes back, and no
\* restart, a token that has failed verifyAccessToken or verifyRefreshToken
\* fails it in every later state.
C21_FailurePermanent == []C21_CleanKeeps /\ [][C21_Step]_vars

\* A pair has been issued after the clock went past the expiry of a revoked
\* access token: the blacklist still holds that expired token, and a revoked
\* refresh token that is otherwise valid.
C21_Witness ==
  /\ last = "issue"
  /\ \E t \in blacklistedTokens :
       t.payload.type = "access" /\ t.payload.exp <= now
  /\ \E t \in blacklistedTokens :
       t.payload.type = "refresh" /\ CryptoValid(t, REFRESH_SECRET)

\* The users with at least one tracked token.
C22_ActiveUsers == {u \in DOMAIN userTokens : userTokens[u] # {}}

\* No userId of the index maps to an empty set, and getStats counts the
\* users with at least one tracked token.
C22_NoEmptyEntry ==
  /\ \A u \in DOMAIN userTokens : userTokens[u] # {}
  /\ GetStats(Registry).activeUsersCount = Cardinality(C22_ActiveUsers)

\* A served logout that removes the last tracked tokens of the user, and
\* every served logout-all, deletes the user's entry.
C22_Step ==
  /\ last' = "logout" =>
       \A header \in Headers :
         RequireAuth(header).next =>
           \A body \in BodyTokens :
             LET u == RequireAuth(header).user.userId
                 removed == {StripBearer(header)} \cup
                              (IF body # EmptyToken THEN {body} ELSE {})
             IN ( /\ u \in DOMAIN userTokens
                  /\ userTokens[u] \subseteq removed
                  /\ Logout(header, body) )
                  => u \notin DOMAIN userTokens'
  /\ last' = "logout-all" =>
       \A header \in Headers :
         (RequireAuth(header).next /\ LogoutAll(header)) =>
           RequireAuth(header).user.userId \notin DOMAIN userTokens'

\* C22. Index garbage collection: in every reachable state no userId in the
\* user-to-tokens index maps to an empty set; a logout that removes a user's
\* last tracked token, and a logout-all, delete the user's entry; so
\* getStats().activeUsersCount is the number of users with at least one
\* tracked token.
C22_IndexGarbageCollection == []C22_NoEmptyEntry /\ [][C22_Step]_vars

\* A logout has removed the two tracked tokens of a user, whose entry is
\* gone, while another user is still counted.
C22_Witness ==
  /\ last = "logout"
  /\ \E p \in issuedPairs :
       /\ p.accessToken.payload.userId \notin DOMAIN userTokens
       /\ {p.accessToken, p.refreshToken} \subseteq blacklistedTokens
  /\ GetStats(Registry).activeUsersCount = 1

\* The userIds blacklistAllUserTokens is applied to: those of the known
\* identities and one that never has a token.
C23_UserIds == UserIds \cup {"u0"}

\* blacklistAllUserTokens(u) applied to the registry of any reachable state.
C23_Effect ==
  \A u \in C23_UserIds :
    LET r == BlacklistAllUserTokens(Registry, u) IN
    IF u \in DOMAIN userTokens
    THEN /\ r.blacklistedTokens = blacklistedTokens \cup userTokens[u]
         /\ DOMAIN r.userTokens = DOMAIN userTokens \ {u}
         /\ \A v \in DOMAIN r.userTokens : r.userTokens[v] = userTokens[v]
    ELSE r = Registry

\* A served POST /auth/logout-all has that effect on the registry.
C23_Step ==
  last' = "logout-all" =>
    \A header \in Headers :
      (RequireAuth(header).next /\ LogoutAll(header)) =>
        LET u == RequireAuth(header).user.userId
            tracked == IF u \in DOMAIN userTokens THEN userTokens[u] ELSE {}
        IN /\ blacklistedTokens' = blacklistedTokens \cup tracked
           /\ DOMAIN userTokens' = DOMAIN userTokens \ {u}
           /\ \A v \in DOMAIN userTokens' : userTokens'[v] = userTokens[v]

\* C23. Exact effect of logoutAll: blacklistAllUserTokens(u) makes the
\* blacklist its previous value united with exactly the tokens tracked for
\* u, deletes u's index entry and leaves every other user's entry unchanged;
\* when u has no entry the call changes nothing.
C23_ExactEffectOfLogoutAll == []C23_Effect /\ [][C23_Step]_vars

\* A logout-all has been served for a user while another user had tracked
\* tokens: the blacklist is the pair of the first user, whose entry is gone,
\* and the other user's entry holds that user's pair.
C23_Witness ==
  /\ last = "logout-all"
  /\ \E p, q \in issuedPairs :
       /\ p.accessToken.payload.userId \notin DOMAIN userTokens
       /\ blacklistedTokens = {p.accessToken, p.refreshToken}
       /\ q.accessToken.payload.userId \in DOMAIN userTokens
       /\ userTokens[q.accessToken.payload.userId]
            = {q.accessToken, q.refreshToken}

\* The arguments blacklistToken and blacklistAllUserTokens are applied to:
\* every issued token and a string that is no JWT, and the userIds of C23.
\* blacklistUserTokens is applied to every known userId (with and without an
\* entry), every issued token as accessToken (tracked by that user, by the
\* other user or by nobody) and every issued token or nothing as
\* refreshToken.
C24_Tokens == IssuedTokens \cup {MalformedToken}

\* A second call with the same arguments returns the registry the first
\* call returned.
C24_Idempotent ==
  /\ \A t \in C24_Tokens :
       BlacklistToken(BlacklistToken(Registry, t), t)
         = BlacklistToken(Registry, t)
  /\ \A u \in C23_UserIds :
       BlacklistAllUserTokens(BlacklistAllUserTokens(Registry, u), u)
         = BlacklistAllUserTokens(Registry, u)
  /\ \A u \in UserIds, a \in IssuedTokens, r \in BodyTokens :
       LET once == BlacklistUserTokens(Registry, u, a, r) IN
       BlacklistUserTokens(once, u, a, r) = once

\* C24. Idempotence of revocation: from the registry of every reachable
\* state and for all arguments, a second call of blacklistToken(t),
\* blacklistUserTokens(u, a, r) or blacklistAllUserTokens(u) with the same
\* arguments leaves the blacklist and the index as the first call left them.
C24_RevocationIdempotent == []C24_Idempotent

\* A logout has revoked a pair of a user who has other tracked tokens:
\* the same call changes nothing, a first call for another pair of the user
\* does, and so does a first blacklistAllUserTokens.
C24_Witness ==
  /\ last = "logout"
  /\ \E p, q \in issuedPairs :
       LET u == p.accessToken.payload.userId IN
       /\ q.accessToken.payload.userId = u
       /\ {p.accessToken, p.refreshToken} \subseteq blacklistedTokens
       /\ u \in DOMAIN userTokens
       /\ BlacklistUserTokens(Registry, u, p.accessToken, p.refreshToken)
            = Registry
       /\ BlacklistUserTokens(Registry, u, q.accessToken, q.refreshToken)
            # Registry
       /\ BlacklistAllUserTokens(Registry, u) # Registry

\* C25. Length-independent comparison: for a stored hash of the correct
\* length, verifyPassword performs the same number of byte comparisons for
\* every candidate password, wherever the re-derived key first differs from
\* the stored key.
C25_ComparisonsIndependent ==
  \A e \in DOMAIN users :
    LET hash == users[e].password
        decoded == Atob(hash)
    IN (decoded.ok /\ Len(decoded.bytes) = SaltLength + KeyLength) =>
         \A p1, p2 \in Passwords :
           VerifyPasswordComparisons(p1, hash)
             = VerifyPasswordComparisons(p2, hash)

\* C26. Session tokens are unique: the access token and the refresh token
\* that a generateTokenPair call returns (for a login, or for a refresh)
\* differ from every token returned by an earlier call, also by one made
\* within the same clock second for the same user.
C26_IssueStep ==
  last' \in {"issue", "refresh"} =>
    \A payload \in Payloads :
      ( \/ IssueTokenPair(payload)
        \/ \E R \in RequestTokens :
             /\ VerifyRefreshToken(R).ok
             /\ R.payload.userId = payload.userId
             /\ R.payload.email = payload.email
             /\ R.payload.username = payload.username
             /\ Refresh(R) ) =>
        LET g == GenerateTokenPair(Registry, payload) IN
        /\ g.accessToken \notin IssuedTokens
        /\ g.refreshToken \notin IssuedTokens

C26_SessionTokensUnique == [][C26_IssueStep]_vars

\* C27. Cross-user isolation of logout: a served POST /auth/logout of a user,
\* whatever string its body carries as refreshToken, leaves every token that
\* was issued to another user verifying if it verified before.
C27_LogoutStep ==
  last' = "logout" =>
    \A header \in Headers, body \in BodyTokens :
      (RequireAuth(header).next /\ Logout(header, body)) =>
        LET u == RequireAuth(header).user.userId IN
        \A t \in IssuedTokens :
          (t.payload.userId # u /\ Verifies(t)) => Verifies(t)'

C27_CrossUserIsolation == [][C27_LogoutStep]_vars

\* Every token a generateTokenPair call has returned is in the active-token
\* set of its user or in the blacklist.
C28_Tracked ==
  \A t \in IssuedTokens :
    \/ t \in blacklistedTokens
    \/ /\ t.payload.userId \in DOMAIN userTokens
       /\ t \in userTokens[t.payload.userId]

\* After a served POST /auth/logout-all of user u no issued token of u
\* passes verifyAccessToken or verifyRefreshToken.
C28_LogoutAllStep ==
  last' = "logout-all" =>
    \A header \in Headers :
      (RequireAuth(header).next /\ LogoutAll(header)) =>
        \A t \in IssuedTokens :
          t.payload.userId = RequireAuth(header).user.userId =>
            /\ t \in blacklistedTokens'
            /\ ~VerifyAccessToken(t).ok'
            /\ ~VerifyRefreshToken(t).ok'

\* C28. No orphan tokens: in every state reachable without a restart, every
\* token returned by issueTokenPair for user u is in u's active-token set or
\* in the blacklist; hence logoutAll(u) leaves no previously issued token of
\* u able to verify.
C28_NoOrphanTokens == []C28_Tracked /\ [][C28_LogoutAllStep]_vars

\* A user with two sessions has logged out of one and then out of all: the
\* four tokens are unexpired and correctly signed, all are revoked, and the
\* user has no entry.
C28_Witness ==
  /\ last = "logout-all"
  /\ \E p, q \in issuedPairs :
       /\ p # q
       /\ p.accessToken.payload.userId = q.accessToken.payload.userId
       /\ p.accessToken.payload.userId \notin DOMAIN userTokens
       /\ {p.accessToken, p.refreshToken, q.accessToken, q.refreshToken}
            \subseteq blacklistedTokens
       /\ CryptoValid(p.accessToken, JWT_SECRET)
       /\ CryptoValid(q.accessToken, JWT_SECRET)
       /\ CryptoValid(p.refreshToken, REFRESH_SECRET)
       /\ CryptoValid(q.refreshToken, REFRESH_SECRET)

\* C29. Rejected authentication changes nothing: a login that is not
\* answered with 200, a refresh whose token fails verifyRefreshToken, and a
\* request that only runs verifyAccessToken (a protected GET, whether the
\* token passes or not) leave the blacklist and the user-to-tokens index
\* unchanged and issue no token.
C29_Step ==
  RegistryChanges =>
    /\ \A email \in Emails, password \in Passwords :
         (LoginResponse(email, password).status # 200
            /\ Login(email, password))
           => UNCHANGED <<blacklistedTokens, userTokens, issuedPairs>>
    /\ \A R \in RequestTokens :
         (~VerifyRefreshToken(R).ok /\ Refresh(R))
           => UNCHANGED <<blacklistedTokens, userTokens, issuedPairs>>
    /\ \A header \in Headers :
         Me(header)
           => UNCHANGED <<blacklistedTokens, userTokens, issuedPairs>>

C29_RejectedChangesNothing == [][C29_Step]_vars

\* A login of a user with tracked tokens has been refused with 401, and a
\* revoked refresh token of another user is refused by POST /auth/refresh.
C29_Witness ==
  /\ answer.op = "login" /\ answer.status = 401
  /\ answer.email \in DOMAIN users
  /\ users[answer.email].userId \in DOMAIN userTokens
  /\ \E t \in blacklistedTokens :
       /\ t.payload.type = "refresh"
       /\ CryptoValid(t, REFRESH_SECRET)
       /\ RefreshResponse(t).status = 401

\* The pairs of the issuances that have returned and of those suspended at
\* their await.
C30_Pairs ==
  issuedPairs \cup
    { [accessToken |-> inflight[r].token,
       refreshToken |-> inflight[r].refreshToken] :
        r \in {q \in Requests : inflight[q].pc = "signing"} }

C30_Tracked(t) ==
  /\ t.payload.userId \in DOMAIN userTokens
  /\ t \in userTokens[t.payload.userId]

\* No request finds exactly one token of a pair tracked.
C30_PairTrackedWhole ==
  \A pair \in C30_Pairs :
    C30_Tracked(pair.accessToken) = C30_Tracked(pair.refreshToken)

\* The resumption of a suspended generateTokenPair tracks both tokens and
\* returns in the same step; and a step that adds to the blacklist (a
\* logout-all served meanwhile) leaves both tokens of every pair in the
\* blacklist or neither.
C30_Step ==
  /\ \A r \in Requests :
       (inflight[r].pc = "signing" /\ inflight'[r] # inflight[r]) =>
         /\ inflight'[r].pc = "idle"
         /\ inflight[r].token.payload.userId \in DOMAIN userTokens'
         /\ {inflight[r].token, inflight[r].refreshToken}
              \subseteq userTokens'[inflight[r].token.payload.userId]
         /\ [accessToken |-> inflight[r].token,
             refreshToken |-> inflight[r].refreshToken] \in issuedPairs'
  /\ blacklistedTokens' # blacklistedTokens =>
       \A pair \in C30_Pairs :
         (pair.accessToken \in blacklistedTokens')
           = (pair.refreshToken \in blacklistedTokens')

\* C30. Pair registration is atomic: the two addUserToken calls of
\* generateTokenPair run in one step of the event loop, so under every
\* interleaving a concurrent logout-all for the same user blacklists both
\* tokens of a pair or neither, and no request observes a state in which
\* exactly one token of a pair is tracked.
C30_PairRegistrationAtomic == []C30_PairTrackedWhole /\ [][C30_Step]_vars

\* A logout-all of a user has been served while an issuance for the same
\* user is suspended at its await: the earlier pair of the user is revoked,
\* and of the new pair no token is tracked or blacklisted.
C30_Witness ==
  /\ last = "logout-all"
  /\ \E r \in Requests :
       /\ inflight[r].pc = "signing"
       /\ inflight[r].token.payload.userId \notin DOMAIN userTokens
       /\ {inflight[r].token, inflight[r].refreshToken}
            \cap blacklistedTokens = {}
       /\ \E old \in issuedPairs :
            /\ old.accessToken.payload.userId
                 = inflight[r].token.payload.userId
            /\ {old.accessToken, old.refreshToken}
                 \subseteq blacklistedTokens
====
